---- MODULE Spec2Model ----
(***************************************************************************)
(* IoT telemetry backend (FastAPI + SQLAlchemy): identity registration,    *)
(* device ("server") registration, sensor-data ingestion, ownership-scoped *)
(* queries and online/offline health derivation.                           *)
(*                                                                         *)
(* The state is the content of the three tables (users, servers,           *)
(* sensor_data), the server clock read by datetime.now(), and the endpoint  *)
(* and status of the last response. The model covers the lifetime of one   *)
(* server process over a database that persists across processes.          *)
(* posted is a history variable: the ingestions accepted so far, each with *)
(* the server time at which it was handled.                                *)
(* Each HTTP handler is one action: a request runs in one database         *)
(* transaction that is committed on success and discarded on failure.      *)
(* SpecConcurrent is the ingestion handler run by two server processes at  *)
(* once, in the steps at which their transactions can interleave; inflight *)
(* holds what each process has read so far (it stays idle under Spec).     *)
(*                                                                         *)
(* Optional values (Optional[float], nullable columns) are sequences:      *)
(* <<>> is None/NULL and <<v>> is the value v.                             *)
(***************************************************************************)
EXTENDS Integers, Sequences, FiniteSets, TLC

VARIABLES users, servers, sensor_data, now, resp, posted, inflight

vars == <<users, servers, sensor_data, now, resp, posted, inflight>>

----------------------------------------------------------------------------
(* Bounds of the model *)

\* the clock is explored up to this many seconds after start
MaxTime == 11

\* amounts by which the clock advances between two requests
TickSteps == {10, 11}

----------------------------------------------------------------------------
(* Optional values *)

None == <<>>

Some(v) == <<v>>

----------------------------------------------------------------------------
(* Identifiers *)

\* str(ulid): `ulid` is imported (from ulid import ulid) and never called, so the
\* identifier is the text of the imported object itself, the same text at every use
\* for the lifetime of the process
str_ulid == "<function ulid>"

\* the text str(ulid) rendered to in an earlier process (the object's address differs)
EarlierUlid == "<function ulid> of an earlier process"

\* the text str(ulid) renders to in another server process running at the same time
OtherUlid == "<function ulid> of another process"

\* rows the test fixture inserts directly
TestUserId == "01HQNJ3P8TMRZ5QPBHF3GPTVWH"

OfflineServerId == "01HQNJ5WF7Q24KPJDVA0SXMHBR"

\* a device identifier no registration ever assigns
NonexistentId == "NONEXISTENT"

----------------------------------------------------------------------------
(* Request inputs *)

Usernames == {"testuser", "newuser"}

Emails == {"test@example.com", "new@example.com"}

ServerNames == {"New Server"}

\* ISO 8601 texts and the instants (seconds) they parse to; any other text is unparseable
IsoSeconds == [t \in {"1970-01-01T00:00:00", "1970-01-01T00:01:00"} |->
                 IF t = "1970-01-01T00:00:00" THEN 0 ELSE 60]

\* pydantic's parse of the `timestamp: datetime` field
ParseTimestamp(text) == IF text \in DOMAIN IsoSeconds THEN Some(IsoSeconds[text]) ELSE None


\* the channel values of a body: temperature, humidity, voltage, current
Channels(temperature, humidity, voltage, current) ==
    [temperature |-> temperature, humidity |-> humidity,
     voltage |-> voltage, current |-> current]

\* no channel, each channel alone, and temperature with each humidity around the
\* bounds of its range, with voltage
ChannelInputs ==
    {Channels(None, None, None, None),
     Channels(Some(20), None, None, None),
     Channels(None, Some(0), None, None),
     Channels(None, None, Some(5), None),
     Channels(None, None, None, Some(1)),
     Channels(Some(20), Some(-1), None, None),
     Channels(Some(20), Some(0), None, None),
     Channels(Some(20), Some(100), None, None),
     Channels(Some(20), Some(101), None, None),
     Channels(Some(22), None, Some(5), None)}

\* identifiers a request can carry: those of the registered devices and an unknown one
DeviceInputs == {s.server_ulid : s \in servers} \cup {NonexistentId}

Payload(server_ulid, timestamp, c) ==
    [server_ulid |-> server_ulid, timestamp |-> timestamp,
     temperature |-> c.temperature, humidity |-> c.humidity,
     voltage |-> c.voltage, current |-> c.current]

\* bodies of POST /data: every channel input with a parseable timestamp, and an
\* unparseable timestamp with no channel and with a temperature
Payloads ==
    {Payload(d, t, c) : d \in DeviceInputs, t \in DOMAIN IsoSeconds, c \in ChannelInputs}
    \cup {Payload(d, "invalid-timestamp", c) : d \in DeviceInputs,
             c \in {Channels(None, None, None, None), Channels(Some(20), None, None, None)}}

----------------------------------------------------------------------------
(* Responses *)

\* the endpoint, the HTTP status and the error detail of the last response; the
\* detail is a set of <<location, message>> pairs, empty on success
NoResp == [op |-> "none", status |-> 0, detail |-> {}]

Response(op, status, detail) == [op |-> op, status |-> status, detail |-> detail]

\* HTTPException(status_code, detail=message)
Detail(message) == {<<"detail", message>>}

----------------------------------------------------------------------------
(* Payload validation: SensorDataPost *)

SensorFields == <<"temperature", "humidity", "voltage", "current">>

SensorFieldSet == {SensorFields[i] : i \in 1..Len(SensorFields)}

\* TRUE when the validator returns, FALSE when it raises
check_humidity_range(v) == ~(v # None /\ (v[1] < 0 \/ v[1] > 100))

\* check_at_least_one_sensor that never raises
check_at_least_one_sensor_never(v, info_data) == TRUE

\* info_data[f] is info.data.get(f): the value of f when f was validated before the
\* field at hand, None otherwise
check_at_least_one_sensor(v, info_data) ==
    ~(v = None /\ \A f \in SensorFieldSet : info_data[f] = None)

\* the validators of a sensor field, in decoration order: the message of the first
\* that raises, None when all return
FieldError(f, v, info_data) ==
    IF f = "humidity" /\ ~check_humidity_range(v)
    THEN Some("Humidity must be between 0 and 100")
    ELSE IF ~check_at_least_one_sensor(v, info_data)
    THEN Some("At least one sensor value must be provided")
    ELSE None

RECURSIVE ValidateFields(_, _, _)

\* the sensor fields from the i-th on are validated in declaration order; a field
\* that passes enters ValidationInfo.data, a field that fails is reported and left
\* out of it
ValidateFields(data, i, info_data) ==
    IF i > Len(SensorFields) THEN {}
    ELSE LET f == SensorFields[i]
             err == FieldError(f, data[f], info_data)
         IN  IF err = None
             THEN ValidateFields(data, i + 1, [info_data EXCEPT ![f] = data[f]])
             ELSE {<<f, err[1]>>} \cup ValidateFields(data, i + 1, info_data)

\* the errors of the sensor fields, for each channel input (they depend on nothing else)
SensorFieldErrors ==
    [c \in ChannelInputs |-> ValidateFields(c, 1, [f \in SensorFieldSet |-> None])]

\* the errors of parsing the body into a SensorDataPost; when there is any, the
\* framework answers 422 with them before the handler runs
ValidationErrors(data) ==
    (IF ParseTimestamp(data.timestamp) = None
     THEN {<<"timestamp", "Input should be a valid datetime">>} ELSE {})
    \cup SensorFieldErrors[Channels(data.temperature, data.humidity,
                                    data.voltage, data.current)]

----------------------------------------------------------------------------
(* Health derivation *)

\* timedelta(seconds=10)
FreshnessWindow == 10

\* get_all_servers_health: "online" if server.last_seen and server.last_seen >= time_threshold
StatusAll(last_seen, t) ==
    IF last_seen # None /\ last_seen[1] >= t - FreshnessWindow THEN "online" ELSE "offline"

\* StatusSingle with the comparison made strict: a device last seen exactly a window
\* ago counts as offline
StatusSingleStrict(last_seen, t) ==
    IF last_seen = None \/ last_seen[1] <= t - FreshnessWindow THEN "offline" ELSE "online"

\* get_server_health: "offline" if server.last_seen is None or server.last_seen < time_threshold
StatusSingle(last_seen, t) ==
    IF last_seen = None \/ last_seen[1] < t - FreshnessWindow THEN "offline" ELSE "online"

ServerResponse(server, status) ==
    [server_ulid |-> server.server_ulid, server_name |-> server.server_name, status |-> status]

----------------------------------------------------------------------------
(* Authentication collaborator *)

\* the identities a valid bearer token resolves to
get_current_active_user == users

\* get_user(db, username): the stored identities with that username
get_user(username) == {u \in users : u.username = username}

----------------------------------------------------------------------------
(* Handlers. Each yields the response and the tables as the request's
   transaction leaves them; a request that raises leaves them as they were. *)

\* POST /auth/register
register_user(user) ==
    IF get_user(user.username) # {}
    THEN [status |-> 400, detail |-> Detail("Username already registered"),
          body |-> {}, users |-> users]
    ELSE LET db_user == [id |-> str_ulid, username |-> user.username, email |-> user.email]
         IN  IF \E u \in users : \/ u.id = db_user.id
                                 \/ u.username = db_user.username
                                 \/ u.email = db_user.email
             \* db.commit() raises IntegrityError (primary key, unique columns)
             THEN [status |-> 500, detail |-> Detail("Internal Server Error"),
                   body |-> {}, users |-> users]
             ELSE [status |-> 200, detail |-> {},
                   body |-> [username |-> db_user.username, email |-> db_user.email],
                   users |-> users \cup {db_user}]

\* POST /servers
create_server(server_name, current_user) ==
    LET db_server == [server_ulid |-> str_ulid, server_name |-> server_name,
                      owner_id |-> current_user.id, last_seen |-> Some(now)]
    IN  IF \E s \in servers : s.server_ulid = db_server.server_ulid
        \* db.commit() raises IntegrityError (primary key)
        THEN [status |-> 500, detail |-> Detail("Internal Server Error"),
              body |-> {}, servers |-> servers]
        ELSE [status |-> 200, detail |-> {}, body |-> ServerResponse(db_server, "online"),
              servers |-> servers \cup {db_server}]

\* GET /health/all
get_all_servers_health(current_user) ==
    [status |-> 200, detail |-> {},
     body |-> {ServerResponse(server, StatusAll(server.last_seen, now)) :
                  server \in {s \in servers : s.owner_id = current_user.id}}]

\* get_server_health looking the device up by identifier alone
get_server_health_any_owner(server_ulid, current_user) ==
    LET found == {s \in servers : s.server_ulid = server_ulid}
    IN  IF found = {}
        THEN [status |-> 404, detail |-> Detail("Server not found"), body |-> {}]
        ELSE LET server == CHOOSE s \in found : TRUE
             IN  [status |-> 200, detail |-> {},
                  body |-> ServerResponse(server, StatusSingle(server.last_seen, now))]

\* GET /health/{server_ulid}
get_server_health(server_ulid, current_user) ==
    LET found == {s \in servers : s.server_ulid = server_ulid /\ s.owner_id = current_user.id}
    IN  IF found = {}
        THEN [status |-> 404, detail |-> Detail("Server not found"), body |-> {}]
        ELSE LET server == CHOOSE s \in found : TRUE
             IN  [status |-> 200, detail |-> {},
                  body |-> ServerResponse(server, StatusSingle(server.last_seen, now))]

\* post_sensor_data whose update of last_seen survives the failure of the insert
post_sensor_data_partial_write(data) ==
    LET errors == ValidationErrors(data)
    IN
    IF errors # {}
    THEN [status |-> 422, detail |-> errors,
          servers |-> servers, sensor_data |-> sensor_data]
    ELSE IF \A s \in servers : s.server_ulid # data.server_ulid
    THEN [status |-> 404, detail |-> Detail("Server not found"),
          servers |-> servers, sensor_data |-> sensor_data]
    ELSE LET db_sensor_data ==
                 [id |-> str_ulid, server_ulid |-> data.server_ulid,
                  timestamp |-> ParseTimestamp(data.timestamp)[1],
                  temperature |-> data.temperature, humidity |-> data.humidity,
                  voltage |-> data.voltage, current |-> data.current]
             seen == {IF s.server_ulid = data.server_ulid
                      THEN [s EXCEPT !.last_seen = Some(now)] ELSE s : s \in servers}
         IN  IF \E r \in sensor_data : r.id = db_sensor_data.id
             THEN [status |-> 500, detail |-> Detail("Internal Server Error"),
                   servers |-> seen, sensor_data |-> sensor_data]
             ELSE [status |-> 201, detail |-> {},
                   servers |-> seen, sensor_data |-> sensor_data \cup {db_sensor_data}]

\* post_sensor_data storing the reading's own timestamp as the liveness timestamp
post_sensor_data_client_time(data) ==
    LET errors == ValidationErrors(data)
    IN
    IF errors # {}
    THEN [status |-> 422, detail |-> errors,
          servers |-> servers, sensor_data |-> sensor_data]
    ELSE IF \A s \in servers : s.server_ulid # data.server_ulid
    THEN [status |-> 404, detail |-> Detail("Server not found"),
          servers |-> servers, sensor_data |-> sensor_data]
    ELSE LET db_sensor_data ==
                 [id |-> str_ulid, server_ulid |-> data.server_ulid,
                  timestamp |-> ParseTimestamp(data.timestamp)[1],
                  temperature |-> data.temperature, humidity |-> data.humidity,
                  voltage |-> data.voltage, current |-> data.current]
         IN  IF \E r \in sensor_data : r.id = db_sensor_data.id
             THEN [status |-> 500, detail |-> Detail("Internal Server Error"),
                   servers |-> servers, sensor_data |-> sensor_data]
             ELSE [status |-> 201, detail |-> {},
                   servers |-> {IF s.server_ulid = data.server_ulid
                                THEN [s EXCEPT !.last_seen = ParseTimestamp(data.timestamp)]
                                ELSE s : s \in servers},
                   sensor_data |-> sensor_data \cup {db_sensor_data}]

\* POST /data
post_sensor_data(data) ==
    LET errors == ValidationErrors(data)
    IN
    IF errors # {}
    THEN [status |-> 422, detail |-> errors,
          servers |-> servers, sensor_data |-> sensor_data]
    ELSE IF \A s \in servers : s.server_ulid # data.server_ulid
    THEN [status |-> 404, detail |-> Detail("Server not found"),
          servers |-> servers, sensor_data |-> sensor_data]
    ELSE LET db_sensor_data ==
                 [id |-> str_ulid, server_ulid |-> data.server_ulid,
                  timestamp |-> ParseTimestamp(data.timestamp)[1],
                  temperature |-> data.temperature, humidity |-> data.humidity,
                  voltage |-> data.voltage, current |-> data.current]
         IN  IF \E r \in sensor_data : r.id = db_sensor_data.id
             \* db.commit() raises IntegrityError (primary key): the update of
             \* last_seen and the insert are discarded together
             THEN [status |-> 500, detail |-> Detail("Internal Server Error"),
                   servers |-> servers, sensor_data |-> sensor_data]
             ELSE [status |-> 201, detail |-> {},
                   servers |-> {IF s.server_ulid = data.server_ulid
                                THEN [s EXCEPT !.last_seen = Some(now)] ELSE s : s \in servers},
                   sensor_data |-> sensor_data \cup {db_sensor_data}]

----------------------------------------------------------------------------
(* GET /data *)

valid_sensor_types == {"temperature", "humidity", "voltage", "current"}

valid_aggregations == {"minute", "hour", "day"}

\* Python truthiness of an Optional[str] query parameter: None and "" are false
Truthy(param) == param # None /\ param[1] # ""

\* query parameters of GET /data
ServerFilterInputs == {None} \cup {Some(s.server_ulid) : s \in servers}

StartTimeInputs == {None, Some(60)}

EndTimeInputs == {None, Some(0)}

SensorTypeInputs == {None, Some("voltage")}

AggregationInputs == {None, Some("minute")}

\* a parameter given with no value (?sensor_type=) arrives as the empty string
EmptyParam == Some("")

\* values the lists of the handler do not hold
UnrecognizedSensorTypes == {Some("invalid_sensor"), EmptyParam}

UnrecognizedAggregations == {Some("invalid"), EmptyParam}

Query(server_ulid, start_time, end_time, sensor_type, aggregation) ==
    [server_ulid |-> server_ulid, start_time |-> start_time, end_time |-> end_time,
     sensor_type |-> sensor_type, aggregation |-> aggregation]

\* the time ranges: open, from a start, up to an end
TimeRangeInputs ==
    {r \in StartTimeInputs \X EndTimeInputs : r[1] = None \/ r[2] = None}

\* every combination of the recognized parameter values, and every combination of
\* the text parameters with unrecognized and empty ones among them (without a time
\* range)
Queries ==
    {Query(d, r[1], r[2], ch, ag) :
        d \in ServerFilterInputs, r \in TimeRangeInputs,
        ch \in SensorTypeInputs, ag \in AggregationInputs}
    \cup {Query(d, None, None, ch, ag) :
             d \in ServerFilterInputs \cup {EmptyParam},
             ch \in SensorTypeInputs \cup UnrecognizedSensorTypes,
             ag \in AggregationInputs \cup UnrecognizedAggregations}

\* the SQLAlchemy release the deployment runs on: database.py needs 1.4 or later
\* (sqlalchemy.orm.declarative_base) and no release is pinned in the sources
SQLAlchemyReleases == {"1.4", "2.0"}

\* FilteredQuery with the device filter taking the place of the ownership filter
FilteredQueryByDevice(current_user, q) ==
    {r \in sensor_data :
        /\ IF Truthy(q.server_ulid)
           THEN r.server_ulid = q.server_ulid[1]
           ELSE \E s \in servers : s.server_ulid = r.server_ulid /\ s.owner_id = current_user.id
        /\ (q.start_time # None => r.timestamp >= q.start_time[1])
        /\ (q.end_time # None => r.timestamp <= q.end_time[1])
        /\ (Truthy(q.sensor_type) => r[q.sensor_type[1]] # None)}

\* FilteredQuery with the start of the time range made exclusive
FilteredQueryExclusiveStart(current_user, q) ==
    {r \in sensor_data :
        /\ \E s \in servers : s.server_ulid = r.server_ulid /\ s.owner_id = current_user.id
        /\ (Truthy(q.server_ulid) => r.server_ulid = q.server_ulid[1])
        /\ (q.start_time # None => r.timestamp > q.start_time[1])
        /\ (q.end_time # None => r.timestamp <= q.end_time[1])
        /\ (Truthy(q.sensor_type) => r[q.sensor_type[1]] # None)}

\* db.query(DBSensorData).join(DBServer) with its filters: the caller's ownership,
\* then the optional filters (the unaggregated query)
FilteredQuery(current_user, q) ==
    {r \in sensor_data :
        /\ \E s \in servers : s.server_ulid = r.server_ulid /\ s.owner_id = current_user.id
        /\ (Truthy(q.server_ulid) => r.server_ulid = q.server_ulid[1])
        /\ (q.start_time # None => r.timestamp >= q.start_time[1])
        /\ (q.end_time # None => r.timestamp <= q.end_time[1])
        /\ (Truthy(q.sensor_type) => r[q.sensor_type[1]] # None)}

\* select(...).select_from(DBSensorData).join(DBServer) with its WHERE clauses (the
\* aggregation statement, which states the filters again)
FilteredStmt(current_user, q) ==
    {r \in sensor_data :
        /\ \E s \in servers : s.server_ulid = r.server_ulid /\ s.owner_id = current_user.id
        /\ (Truthy(q.server_ulid) => r.server_ulid = q.server_ulid[1])
        /\ (q.start_time # None => r.timestamp >= q.start_time[1])
        /\ (q.end_time # None => r.timestamp <= q.end_time[1])
        /\ (Truthy(q.sensor_type) => r[q.sensor_type[1]] # None)}

\* seconds in a bucket of date_trunc
TruncWidth == [minute |-> 60, hour |-> 3600, day |-> 86400]

date_trunc(unit, timestamp) == timestamp - (timestamp % TruncWidth[unit])

RECURSIVE SumOf(_, _)

SumOf(rows, field) ==
    IF rows = {} THEN 0
    ELSE LET r == CHOOSE x \in rows : TRUE
         IN  r[field][1] + SumOf(rows \ {r}, field)

RECURSIVE Gcd(_, _)

Gcd(a, b) == IF b = 0 THEN a ELSE Gcd(b, a % b)

\* func.avg: the mean of the non-null values as a fraction in lowest terms, NULL
\* when there is none
avg(rows, field) ==
    LET vals == {r \in rows : r[field] # None}
        total == SumOf(vals, field)
        n == Cardinality(vals)
        g == Gcd(IF total < 0 THEN -total ELSE total, n)
    IN  IF vals = {} THEN None ELSE Some(<<total \div g, n \div g>>)

\* a row of the response: SensorDataResponse, and in src the stored readings the row
\* was computed from (not on the wire; used to state what a response reveals)
SensorDataResponse(timestamp, temperature, humidity, voltage, current, src) ==
    [timestamp |-> timestamp, temperature |-> temperature, humidity |-> humidity,
     voltage |-> voltage, current |-> current, src |-> src]

\* whether the response carries the channel
Selected(q, field) == ~Truthy(q.sensor_type) \/ q.sensor_type[1] = field

AggregatedRow(q, rows, bucket) ==
    LET inb == {r \in rows : date_trunc(q.aggregation[1], r.timestamp) = bucket}
        col(field) == IF Selected(q, field) THEN avg(inb, field) ELSE None
    IN  SensorDataResponse(bucket, col("temperature"), col("humidity"), col("voltage"),
                           col("current"), {r.id : r \in inb})

PlainRow(q, r) ==
    LET col(field) == IF Selected(q, field) THEN r[field] ELSE None
    IN  SensorDataResponse(r.timestamp, col("temperature"), col("humidity"), col("voltage"),
                           col("current"), {r.id})

\* ORDER BY timestamp: every listing of the rows in ascending timestamp order
OrderByTimestamp(rows) ==
    {body \in [1..Cardinality(rows) -> rows] :
        /\ \A i, j \in DOMAIN body : i # j => body[i] # body[j]
        /\ \A i, j \in DOMAIN body : i < j => body[i].timestamp <= body[j].timestamp}

\* GET /data: the status and the bodies the query can return, on the given release
get_sensor_data(current_user, q, sqlalchemy) ==
    IF Truthy(q.sensor_type) /\ q.sensor_type[1] \notin valid_sensor_types
    THEN [status |-> 400, detail |-> Detail("Invalid sensor type"), bodies |-> {<<>>}]
    ELSE IF Truthy(q.aggregation) /\ q.aggregation[1] \notin valid_aggregations
    THEN [status |-> 400, detail |-> Detail("Invalid aggregation"), bodies |-> {<<>>}]
    ELSE IF Truthy(q.aggregation) /\ sqlalchemy = "2.0"
    \* select([...]): release 2.0 takes the columns positionally and raises
    \* ArgumentError for the list
    THEN [status |-> 500, detail |-> Detail("Internal Server Error"), bodies |-> {<<>>}]
    ELSE IF Truthy(q.aggregation)
    THEN LET rows == FilteredStmt(current_user, q)
         IN  [status |-> 200, detail |-> {},
              bodies |-> OrderByTimestamp(
                  {AggregatedRow(q, rows, b) :
                      b \in {date_trunc(q.aggregation[1], r.timestamp) : r \in rows}})]
    ELSE [status |-> 200, detail |-> {},
          bodies |-> OrderByTimestamp({PlainRow(q, r) : r \in FilteredQuery(current_user, q)})]

----------------------------------------------------------------------------
(* Server processes *)

\* the server processes serving the one database. A handler is an async function
\* that never awaits, so a process runs its requests one after the other; requests
\* overlap only across processes
Workers == {"worker-1", "worker-2"}

\* str(ulid) in each process
WorkerUlid == [w \in Workers |-> IF w = "worker-1" THEN str_ulid ELSE OtherUlid]

\* a process between requests
Idle == [pc |-> "idle"]

----------------------------------------------------------------------------
(* Initial states *)

\* the rows the test fixture inserts directly: the test user and its offline server,
\* whose last_seen (a nullable column) is 15 seconds old or NULL
FixtureUsers ==
    {[id |-> TestUserId, username |-> "testuser", email |-> "test@example.com"]}

FixtureServer(last_seen) ==
    [server_ulid |-> OfflineServerId, server_name |-> "Offline Server",
     owner_id |-> TestUserId, last_seen |-> last_seen]

\* a reading an earlier process stored for the fixture's server
EarlierReading ==
    [id |-> EarlierUlid, server_ulid |-> OfflineServerId, timestamp |-> 0,
     temperature |-> Some(20), humidity |-> None, voltage |-> None, current |-> None]

\* the database as the process finds it: empty, or holding the fixture's rows, the
\* server never seen or seen 15 seconds ago when a reading was stored for it
Init ==
    /\ \/ users = {} /\ servers = {} /\ sensor_data = {}
       \/ /\ users = FixtureUsers
          /\ servers = {FixtureServer(None)}
          /\ sensor_data = {}
       \/ /\ users = FixtureUsers
          /\ servers = {FixtureServer(Some(0 - 15))}
          /\ sensor_data = {EarlierReading}
    /\ now = 0
    /\ resp = NoResp
    /\ posted = {}
    /\ inflight = [w \in Workers |-> Idle]

----------------------------------------------------------------------------
(* Actions *)

RegisterUser ==
    \E username \in Usernames, email \in Emails :
        LET r == register_user([username |-> username, email |-> email])
        IN  /\ users' = r.users
            /\ resp' = Response("register_user", r.status, r.detail)
            /\ UNCHANGED <<servers, sensor_data, now, posted, inflight>>

CreateServer ==
    \E current_user \in get_current_active_user, server_name \in ServerNames :
        LET r == create_server(server_name, current_user)
        IN  /\ servers' = r.servers
            /\ resp' = Response("create_server", r.status, r.detail)
            /\ UNCHANGED <<users, sensor_data, now, posted, inflight>>

GetAllServersHealth ==
    \E current_user \in get_current_active_user :
        LET r == get_all_servers_health(current_user)
        IN  /\ resp' = Response("get_all_servers_health", r.status, r.detail)
            /\ UNCHANGED <<users, servers, sensor_data, now, posted, inflight>>

GetServerHealth ==
    \E current_user \in get_current_active_user, server_ulid \in DeviceInputs :
        LET r == get_server_health(server_ulid, current_user)
        IN  /\ resp' = Response("get_server_health", r.status, r.detail)
            /\ UNCHANGED <<users, servers, sensor_data, now, posted, inflight>>

PostSensorData ==
    \E data \in Payloads :
        LET r == post_sensor_data(data)
        IN  /\ servers' = r.servers
            /\ sensor_data' = r.sensor_data
            /\ resp' = Response("post_sensor_data", r.status, r.detail)
            /\ posted' = IF r.status = 201
                         THEN posted \cup {[server_ulid |-> data.server_ulid, at |-> now,
                                            timestamp |-> data.timestamp]}
                         ELSE posted
            /\ UNCHANGED <<users, now, inflight>>

GetSensorData ==
    \E current_user \in get_current_active_user, q \in Queries :
        \* only a request with an aggregation reaches the code the release decides
        \E sqlalchemy \in IF Truthy(q.aggregation) THEN SQLAlchemyReleases ELSE {"1.4"} :
        LET r == get_sensor_data(current_user, q, sqlalchemy)
        IN  /\ resp' = Response("get_sensor_data", r.status, r.detail)
            /\ UNCHANGED <<users, servers, sensor_data, now, posted, inflight>>

\* the server clock advances
Tick ==
    \E d \in TickSteps :
        /\ now + d <= MaxTime
        /\ now' = now + d
        /\ UNCHANGED <<users, servers, sensor_data, resp, posted, inflight>>

Next ==
    \/ RegisterUser
    \/ CreateServer
    \/ GetAllServersHealth
    \/ GetServerHealth
    \/ PostSensorData
    \/ GetSensorData
    \/ Tick

Spec == Init /\ [][Next]_vars

----------------------------------------------------------------------------
(* POST /data handled by several processes at once *)

\* bodies of the overlapping requests: a temperature, or no channel, for each device
\* identifier, with either timestamp
OverlappingPayloads ==
    {Payload(d, t, c) : d \in DeviceInputs, t \in DOMAIN IsoSeconds,
                        c \in {Channels(Some(20), None, None, None),
                               Channels(None, None, None, None)}}

\* the request body is validated and the device row is read (the transaction of the
\* request begins with this SELECT)
StartPost(w) ==
    /\ inflight[w] = Idle
    /\ \E data \in OverlappingPayloads :
          LET errors == ValidationErrors(data)
          IN  IF errors # {}
              THEN /\ resp' = Response("post_sensor_data", 422, errors)
                   /\ UNCHANGED inflight
              ELSE IF \A s \in servers : s.server_ulid # data.server_ulid
              THEN /\ resp' = Response("post_sensor_data", 404, Detail("Server not found"))
                   /\ UNCHANGED inflight
              ELSE /\ inflight' = [inflight EXCEPT ![w] = [pc |-> "found", data |-> data]]
                   /\ UNCHANGED resp
    /\ UNCHANGED <<users, servers, sensor_data, now, posted>>

\* server.last_seen = datetime.now(): the clock is read and the value is held in the
\* session until the commit
ReadClock(w) ==
    /\ inflight[w].pc = "found"
    /\ inflight' = [inflight EXCEPT ![w] = [pc |-> "dirty", data |-> inflight[w].data,
                                            last_seen |-> now]]
    /\ UNCHANGED <<users, servers, sensor_data, now, resp, posted>>

\* db.add(db_sensor_data); db.commit(): the UPDATE of the device row and the INSERT
\* of the reading are written and committed together, or discarded together when the
\* INSERT violates the primary key
Commit(w) ==
    /\ inflight[w].pc = "dirty"
    /\ LET data == inflight[w].data
           db_sensor_data ==
               [id |-> WorkerUlid[w], server_ulid |-> data.server_ulid,
                timestamp |-> ParseTimestamp(data.timestamp)[1],
                temperature |-> data.temperature, humidity |-> data.humidity,
                voltage |-> data.voltage, current |-> data.current]
       IN  IF \E r \in sensor_data : r.id = db_sensor_data.id
           THEN /\ resp' = Response("post_sensor_data", 500, Detail("Internal Server Error"))
                /\ UNCHANGED <<servers, sensor_data, posted>>
           ELSE /\ servers' = {IF s.server_ulid = data.server_ulid
                               THEN [s EXCEPT !.last_seen = Some(inflight[w].last_seen)]
                               ELSE s : s \in servers}
                /\ sensor_data' = sensor_data \cup {db_sensor_data}
                /\ posted' = posted \cup {[server_ulid |-> data.server_ulid,
                                            at |-> inflight[w].last_seen,
                                            timestamp |-> data.timestamp]}
                /\ resp' = Response("post_sensor_data", 201, {})
    /\ inflight' = [inflight EXCEPT ![w] = Idle]
    /\ UNCHANGED <<users, now>>

NextConcurrent ==
    \/ \E w \in Workers : StartPost(w)
    \/ \E w \in Workers : ReadClock(w)
    \/ \E w \in Workers : Commit(w)
    \/ Tick

SpecConcurrent == Init /\ [][NextConcurrent]_vars

----------------------------------------------------------------------------
(* Properties *)

\* the identity owns the device with that identifier
Owns(u, server_ulid) ==
    \E s \in servers : s.server_ulid = server_ulid /\ s.owner_id = u.id

\* C1: GET /data issued by a caller returns only rows computed from readings whose
\* device the caller owns, for every combination of the device, start-time, end-time,
\* channel and aggregation parameters, unaggregated and aggregated.
C1_OwnershipScoping ==
    \A u \in users, q \in Queries, sqlalchemy \in SQLAlchemyReleases :
        LET r == get_sensor_data(u, q, sqlalchemy)
        IN  \A body \in r.bodies : \A i \in DOMAIN body : \A id \in body[i].src :
                \E rd \in sensor_data : rd.id = id /\ Owns(u, rd.server_ulid)

\* GET /data has answered 200 while the store holds a reading of a device of the
\* caller's and a reading of a device of another identity
C1_Witness ==
    /\ resp.op = "get_sensor_data" /\ resp.status = 200
    /\ \E u \in users :
          /\ \E rd \in sensor_data : Owns(u, rd.server_ulid)
          /\ \E rd \in sensor_data : ~Owns(u, rd.server_ulid)
          /\ \E q \in Queries :
                /\ Truthy(q.server_ulid) /\ ~Owns(u, q.server_ulid[1])
                /\ \E rd \in sensor_data : rd.server_ulid = q.server_ulid[1]
                /\ get_sensor_data(u, q, "1.4").bodies = {<<>>}

\* C2: the status reported for a device is "online" exactly when its liveness
\* timestamp is not null and now - last_seen <= 10 seconds, "offline" otherwise; the
\* single-device and the all-devices endpoint report the same status.
C2_HealthStatus ==
    \A s \in servers, u \in users :
        s.owner_id = u.id =>
            LET expected == IF s.last_seen # None /\ now - s.last_seen[1] <= 10
                            THEN "online" ELSE "offline"
            IN  /\ get_server_health(s.server_ulid, u) =
                       [status |-> 200, detail |-> {}, body |-> ServerResponse(s, expected)]
                /\ {row \in get_all_servers_health(u).body : row.server_ulid = s.server_ulid}
                       = {ServerResponse(s, expected)}

\* health was asked while one device has a null liveness timestamp and another was
\* last seen exactly 10 seconds ago
C2_Witness ==
    /\ resp.op \in {"get_server_health", "get_all_servers_health"} /\ resp.status = 200
    /\ \E s \in servers : s.last_seen = None
    /\ \E s \in servers : s.last_seen # None /\ now - s.last_seen[1] = 10

\* the ingestion is the last accepted for its device
LatestPost(p) ==
    \A p2 \in posted : p2.server_ulid = p.server_ulid => p2.at <= p.at

\* C3: after a POST /data accepted for a device at server time t, with no later one
\* accepted for it, the device's health is "online" at every time in [t, t + 10] and
\* "offline" at every later time, whatever the reading's own timestamp is.
C3_PostRefreshesLiveness ==
    \A p \in posted : LatestPost(p) =>
        \A u \in users : Owns(u, p.server_ulid) =>
            LET expected == IF now <= p.at + 10 THEN "online" ELSE "offline"
            IN  /\ now >= p.at
                /\ get_server_health(p.server_ulid, u).body.status = expected
                /\ \A row \in get_all_servers_health(u).body :
                       row.server_ulid = p.server_ulid => row.status = expected

\* single-device health answered more than 10 seconds after an accepted ingestion
\* whose reading carries a timestamp ahead of the server clock
C3_Witness ==
    /\ resp.op = "get_server_health" /\ resp.status = 200
    /\ \E p \in posted : now > p.at + 10 /\ ParseTimestamp(p.timestamp)[1] > now

\* a device with that identifier is registered
DeviceExists(server_ulid) == \E s \in servers : s.server_ulid = server_ulid

\* no channel of the body carries a value
AllNull(data) == \A f \in SensorFieldSet : data[f] = None

\* the body satisfies the three documented constraints: parseable timestamp, humidity
\* absent or within [0, 100], at least one channel present
DocumentedValid(data) ==
    /\ ParseTimestamp(data.timestamp) # None
    /\ (data.humidity # None => (data.humidity[1] >= 0 /\ data.humidity[1] <= 100))
    /\ ~AllNull(data)

\* C4: POST /data addressed to an identifier no device has fails with 404, stores no
\* reading and changes no device's liveness timestamp.
C4_UnknownDeviceNotFound ==
    \A data \in Payloads : (~DeviceExists(data.server_ulid) /\ DocumentedValid(data)) =>
        LET r == post_sensor_data(data)
        IN  r.status = 404 /\ r.servers = servers /\ r.sensor_data = sensor_data

\* the part of C4 the handler keeps: whatever the answer to a POST for an unknown
\* identifier, it is an error and both tables stay as they were
C4_UnknownDeviceNoEffect ==
    \A data \in Payloads : ~DeviceExists(data.server_ulid) =>
        LET r == post_sensor_data(data)
        IN  r.status \in {404, 422} /\ r.servers = servers /\ r.sensor_data = sensor_data

\* C5: POST /data whose four channels are all null fails with 422 whatever the device
\* identifier and timestamp are, stores no reading and changes no liveness timestamp.
C5_AllNullRejected ==
    \A data \in Payloads : AllNull(data) =>
        LET r == post_sensor_data(data)
        IN  r.status = 422 /\ r.servers = servers /\ r.sensor_data = sensor_data

\* POST /data answered 422 reporting every one of the four channels as missing, while
\* a device is registered
C5_Witness ==
    /\ resp.op = "post_sensor_data" /\ resp.status = 422
    /\ \A f \in SensorFieldSet :
          <<f, "At least one sensor value must be provided">> \in resp.detail
    /\ servers # {}

\* C6: POST /data addressed to an existing device is rejected with a validation error
\* exactly when the timestamp is unparseable, the humidity is outside [0, 100] or all
\* four channels are null; any other payload, a single non-null channel included, is
\* accepted with 201 and its reading stored.
C6_RejectedIffInvalid ==
    \A data \in Payloads : DeviceExists(data.server_ulid) =>
        LET r == post_sensor_data(data)
        IN  IF DocumentedValid(data)
            THEN r.status = 201 /\ r.sensor_data # sensor_data
            ELSE r.status = 422 /\ r.sensor_data = sensor_data

\* C7: humidity -1 and 101 fail validation; humidity 0 and 100 posted to an existing
\* device with a parseable timestamp succeed (the bounds are inclusive).
C7_HumidityBoundsInclusive ==
    \A data \in Payloads : data.humidity # None =>
        LET r == post_sensor_data(data)
        IN  /\ (data.humidity[1] \in {0 - 1, 101} => r.status = 422)
            /\ (/\ data.humidity[1] \in {0, 100}
                /\ DeviceExists(data.server_ulid)
                /\ ParseTimestamp(data.timestamp) # None) => r.status = 201

\* the half of C7 the validators keep: humidity -1 and 101 are always rejected
C7_OutOfRangeRejected ==
    \A data \in Payloads :
        (data.humidity # None /\ data.humidity[1] \in {0 - 1, 101}) =>
            post_sensor_data(data).status = 422

\* C8: every device registration succeeds and assigns an identifier no registered
\* device has, sets the owner to the caller and the liveness timestamp to the
\* registration time, and returns status "online".
C8_RegistrationDistinctIds ==
    \A u \in users, server_name \in ServerNames :
        LET r == create_server(server_name, u)
        IN  /\ r.status = 200
            /\ ~DeviceExists(r.body.server_ulid)
            /\ r.body.status = "online"
            /\ \E s \in r.servers \ servers :
                  /\ s.server_ulid = r.body.server_ulid
                  /\ s.owner_id = u.id
                  /\ s.last_seen = Some(now)

\* C9: single-device health answers the same 404 when no device has the identifier
\* and when the device is owned by another identity; all-devices health answers 200,
\* lists only devices of the caller, and is empty for a caller owning none.
C9_NotFoundIndistinguishable ==
    /\ \A u \in users, x \in DeviceInputs : ~Owns(u, x) =>
          get_server_health(x, u) =
              [status |-> 404, detail |-> Detail("Server not found"), body |-> {}]
    /\ \A u \in users :
          LET r == get_all_servers_health(u)
          IN  /\ r.status = 200
              /\ \A row \in r.body : Owns(u, row.server_ulid)
              /\ ((\A s \in servers : s.owner_id # u.id) => r.body = {})

\* single-device health answered 404 while an identity owns no device and another
\* identity owns one
C9_Witness ==
    /\ resp.op = "get_server_health" /\ resp.status = 404
    /\ \E u \in users :
          /\ \A s \in servers : s.owner_id # u.id
          /\ \E s \in servers : s.owner_id # u.id

\* C10: registering an identity whose username or email is already held is answered
\* 400 and leaves the identity store as it was; no two identities share a username or
\* an email.
C10_DuplicateIdentityRejected ==
    /\ \A username \in Usernames, email \in Emails :
          (\E u \in users : u.username = username \/ u.email = email) =>
              LET r == register_user([username |-> username, email |-> email])
              IN  r.status = 400 /\ r.users = users
    /\ \A u1, u2 \in users :
          (u1.username = u2.username \/ u1.email = u2.email) => u1 = u2

\* the part of C10 the handler and the unique columns keep: a duplicate is never
\* stored
C10_NoDuplicateStored ==
    /\ \A username \in Usernames, email \in Emails :
          (\E u \in users : u.username = username \/ u.email = email) =>
              LET r == register_user([username |-> username, email |-> email])
              IN  r.status \in {400, 500} /\ r.users = users
    /\ \A u1, u2 \in users :
          (u1.username = u2.username \/ u1.email = u2.email) => u1 = u2

\* the parameter is given and its value is not in the set
Unrecognized(param, recognized) == param # None /\ param[1] \notin recognized

\* C11: GET /data with a channel parameter that is not one of the four channels, or an
\* aggregation parameter that is not one of minute/hour/day, is answered with a 4xx
\* error for every supplied value, whatever the other parameters are.
C11_UnrecognizedRejected ==
    \A u \in users, q \in Queries, sqlalchemy \in SQLAlchemyReleases :
        (\/ Unrecognized(q.sensor_type, valid_sensor_types)
         \/ Unrecognized(q.aggregation, valid_aggregations)) =>
            get_sensor_data(u, q, sqlalchemy).status \in 400..499

\* the part of C11 the handler keeps: an unrecognized value other than the empty
\* string is answered 400
C11_NonEmptyUnrecognizedRejected ==
    \A u \in users, q \in Queries, sqlalchemy \in SQLAlchemyReleases :
        (\/ (Unrecognized(q.sensor_type, valid_sensor_types) /\ q.sensor_type # EmptyParam)
         \/ (Unrecognized(q.aggregation, valid_aggregations) /\ q.aggregation # EmptyParam)) =>
            get_sensor_data(u, q, sqlalchemy).status = 400

\* requests in unaggregated mode with the channel absent or one of the four
UnaggregatedQueries ==
    {q \in Queries : q.aggregation = None /\ ~Unrecognized(q.sensor_type, valid_sensor_types)}

\* the reading passes the time-range and channel filters of the request
InRangeWithChannel(q, rd) ==
    /\ (q.start_time # None => rd.timestamp >= q.start_time[1])
    /\ (q.end_time # None => rd.timestamp <= q.end_time[1])
    /\ (q.sensor_type # None => rd[q.sensor_type[1]] # None)

\* the body lists exactly the expected readings, one row each, by ascending
\* timestamp, each row with the reading's timestamp and the requested channel alone
\* (all four channels without a channel filter)
ListsExactly(q, body, expected) ==
    /\ Len(body) = Cardinality(expected)
    /\ \A rd \in expected : \E i \in DOMAIN body :
          /\ body[i].src = {rd.id}
          /\ body[i].timestamp = rd.timestamp
          /\ \A f \in SensorFieldSet :
                body[i][f] = IF q.sensor_type = None \/ q.sensor_type[1] = f
                             THEN rd[f] ELSE None
    /\ \A i, j \in DOMAIN body : i < j => body[i].timestamp <= body[j].timestamp

\* C12 as amended: unaggregated GET /data returns exactly the caller-owned readings
\* that pass the time-range and channel filters and, when the device parameter is
\* given and not the empty string, belong to that device; ordered by timestamp
\* ascending, each row carrying only the requested channel.
C12_UnaggregatedExact ==
    \A u \in users, q \in UnaggregatedQueries, sqlalchemy \in SQLAlchemyReleases :
        LET r == get_sensor_data(u, q, sqlalchemy)
            expected == {rd \in sensor_data :
                            /\ Owns(u, rd.server_ulid)
                            /\ ((q.server_ulid # None /\ q.server_ulid # EmptyParam)
                                    => rd.server_ulid = q.server_ulid[1])
                            /\ InRangeWithChannel(q, rd)}
        IN  /\ r.status = 200
            /\ r.bodies # {}
            /\ \A body \in r.bodies : ListsExactly(q, body, expected)

\* GET /data answered 200 while a caller owns a reading at the very start of a
\* requested range with the requested channel, and an earlier one without it
C12_Witness ==
    /\ resp.op = "get_sensor_data" /\ resp.status = 200
    /\ \E u \in users, q \in UnaggregatedQueries :
          /\ q.sensor_type = Some("voltage") /\ q.start_time = Some(60)
          /\ \E rd \in sensor_data :
                Owns(u, rd.server_ulid) /\ rd.voltage # None /\ rd.timestamp = 60
          /\ \E rd \in sensor_data :
                Owns(u, rd.server_ulid) /\ rd.voltage = None /\ rd.timestamp < 60

\* C12 as stated: the device filter is an equality on every supplied value
C12_UnaggregatedExactAsStated ==
    \A u \in users, q \in UnaggregatedQueries, sqlalchemy \in SQLAlchemyReleases :
        LET r == get_sensor_data(u, q, sqlalchemy)
            expected == {rd \in sensor_data :
                            /\ Owns(u, rd.server_ulid)
                            /\ (q.server_ulid # None => rd.server_ulid = q.server_ulid[1])
                            /\ InRangeWithChannel(q, rd)}
        IN  /\ r.status = 200
            /\ r.bodies # {}
            /\ \A body \in r.bodies : ListsExactly(q, body, expected)

\* requests in aggregated mode with a recognized granularity, the channel absent or
\* one of the four, and the device absent or named
AggregatedQueries ==
    {q \in Queries : /\ q.aggregation # None /\ q.aggregation[1] \in valid_aggregations
                      /\ ~Unrecognized(q.sensor_type, valid_sensor_types)
                      /\ q.server_ulid # EmptyParam}

\* the caller-owned readings the request selects
Matching(u, q) ==
    {rd \in sensor_data : /\ Owns(u, rd.server_ulid)
                           /\ (q.server_ulid # None => rd.server_ulid = q.server_ulid[1])
                           /\ InRangeWithChannel(q, rd)}

\* the value is the arithmetic mean of the channel's non-null values among the
\* readings, null when there is none
IsMean(value, readings, f) ==
    LET vals == {rd \in readings : rd[f] # None}
    IN  IF vals = {} THEN value = None
        ELSE value # None /\ value[1][1] * Cardinality(vals) = value[1][2] * SumOf(vals, f)

\* the body lists exactly one row per bucket holding a matching reading, by ascending
\* bucket start, each returned channel the mean over the bucket
ListsBuckets(q, body, matching) ==
    LET unit == q.aggregation[1]
        buckets == {date_trunc(unit, rd.timestamp) : rd \in matching}
    IN  /\ Len(body) = Cardinality(buckets)
        /\ \A b \in buckets : \E i \in DOMAIN body :
              /\ body[i].timestamp = b
              /\ \A f \in SensorFieldSet :
                    IF q.sensor_type = None \/ q.sensor_type[1] = f
                    THEN IsMean(body[i][f],
                                {rd \in matching : date_trunc(unit, rd.timestamp) = b}, f)
                    ELSE body[i][f] = None
        /\ \A i, j \in DOMAIN body : i < j => body[i].timestamp < body[j].timestamp

\* C13: aggregated GET /data returns exactly one row per bucket that holds a matching
\* caller-owned reading, ordered by bucket start ascending, each returned channel the
\* mean of its non-null values in the bucket (null when there is none), and with a
\* channel filter only that channel.
C13_AggregatedExact ==
    \A u \in users, q \in AggregatedQueries, sqlalchemy \in SQLAlchemyReleases :
        LET r == get_sensor_data(u, q, sqlalchemy)
        IN  /\ r.status = 200
            /\ r.bodies # {}
            /\ \A body \in r.bodies : ListsBuckets(q, body, Matching(u, q))

\* what holds of C13: on a release that accepts select([...]) the response is as
\* claimed, and on no release does an aggregated request return other rows
C13_AggregatedExactWhereAccepted ==
    \A u \in users, q \in AggregatedQueries, sqlalchemy \in SQLAlchemyReleases :
        LET r == get_sensor_data(u, q, sqlalchemy)
        IN  IF sqlalchemy = "1.4"
            THEN /\ r.status = 200
                 /\ r.bodies # {}
                 /\ \A body \in r.bodies : ListsBuckets(q, body, Matching(u, q))
            ELSE r.status = 500 /\ r.bodies = {<<>>}

\* the step is the handling of a POST /data that changed the response or a table
IngestionStep ==
    /\ resp'.op = "post_sensor_data"
    /\ <<resp, servers, sensor_data>>' # <<resp, servers, sensor_data>>

\* C14: an accepted POST /data for device D is one step that appends exactly one
\* reading, for D, and sets D's liveness timestamp to the server clock, leaving every
\* other device, every identity and every stored reading as they were; a failed one
\* leaves both tables as they were.
C14_IngestionAtomic ==
    [][IngestionStep =>
          /\ users' = users
          /\ IF resp'.status = 201
             THEN \E rd \in sensor_data' :
                     /\ \A old \in sensor_data : old.id # rd.id
                     /\ sensor_data' = sensor_data \cup {rd}
                     /\ DeviceExists(rd.server_ulid)
                     /\ servers' = {IF s.server_ulid = rd.server_ulid
                                    THEN [s EXCEPT !.last_seen = Some(now)]
                                    ELSE s : s \in servers}
             ELSE servers' = servers /\ sensor_data' = sensor_data]_vars

\* a POST /data has failed on the insert after one was accepted, with a reading of
\* an earlier process stored and two devices registered
C14_Witness ==
    /\ resp.op = "post_sensor_data" /\ resp.status = 500
    /\ posted # {}
    /\ EarlierReading \in sensor_data
    /\ Cardinality(servers) >= 2

\* the text a stored timestamp was parsed from
TimestampText(timestamp) == CHOOSE t \in DOMAIN IsoSeconds : IsoSeconds[t] = timestamp

\* C15: posting again a reading that was accepted (same device, timestamp and channel
\* values) is accepted again and adds a second row.
C15_RepostAddsRow ==
    \A rd \in sensor_data :
        (\E p \in posted : /\ p.server_ulid = rd.server_ulid
                            /\ ParseTimestamp(p.timestamp) = Some(rd.timestamp)
                            /\ rd.id = str_ulid) =>
            LET data == Payload(rd.server_ulid, TimestampText(rd.timestamp),
                                Channels(rd.temperature, rd.humidity, rd.voltage, rd.current))
                r == post_sensor_data(data)
            IN  /\ r.status = 201
                /\ Cardinality(r.sensor_data) = Cardinality(sensor_data) + 1

\* what the handler does: the identifier of a reading is the same text for every
\* post of a process, so a process stores at most one reading
C15_OneReadingPerProcess ==
    Cardinality({rd \in sensor_data : rd.id = str_ulid}) <= 1

\* every device row keeps or advances its liveness timestamp in the step
LivenessNotBackward ==
    \A s \in servers : \A t \in servers' :
        (t.server_ulid = s.server_ulid /\ s.last_seen # None) =>
            (t.last_seen # None /\ t.last_seen[1] >= s.last_seen[1])

\* C16: with a monotonic server clock, no commit of concurrent POST /data requests
\* for a device moves the device's liveness timestamp backward.
C16_LivenessNeverBackward == [][LivenessNotBackward]_vars

====
